---------------------------- MODULE Spec2Model ----------------------------
(***************************************************************************)
(* Real-time notification fabric and sliding-session protocol of ZeCo.     *)
(*                                                                         *)
(*   - ConnectionManager (core/websocket_manager.py): the registry of     *)
(*     live websockets, its fan-out operations and its statistics.        *)
(*   - websocket_endpoint (api/v1/endpoints/websockets.py): the gateway   *)
(*     handler that authenticates, registers and serves one websocket.    *)
(*   - create_access_token / decode_token / should_refresh_token /        *)
(*     get_token_remaining_duration (core/security.py) and                *)
(*     SlidingTokenMiddleware (core/token_refresh.py): credential renewal. *)
(*                                                                         *)
(* The server is one asyncio event loop: code between two awaits runs     *)
(* atomically, and every await is a point where other tasks may run.      *)
(* Each action below is one such atomic stretch of one coroutine.         *)
(***************************************************************************)
EXTENDS Integers, Sequences, FiniteSets, TLC

\* ------------------------------------------------------------------ bounds
MaxActive == 2      \* cap on len(active_connections)
MaxCalls == 2       \* cap on the count of disconnect calls per websocket

\* The websocket objects of the process and the rows of the users table.
WS == {"ws1", "ws2"}
Users == {1, 2}
NoWS == "none"
NoUser == 0

MaxTime == 34       \* the clock stops after this many minutes
MaxLifetime == 3    \* longest expires_delta of a direct create_access_token

\* config.py
ACCESS_TOKEN_EXPIRE_MINUTES == 30
TOKEN_REFRESH_THRESHOLD_MINUTES == 15

\* ------------------------------------------------------------------- roles
ADMIN == "admin"
KITCHEN == "kitchen"
CLIENT == "client"
WAITER == "waiter"
UserRole == {ADMIN, KITCHEN, CLIENT, WAITER}
RoleList == <<ADMIN, KITCHEN, CLIENT, WAITER>>
\* user.role of the row with id u
RoleOfUser(u) == RoleList[((u - 1) % 4) + 1]

VARIABLES
    \* ConnectionManager.__init__
    active_connections,     \* List[WebSocket]
    connections_by_role,    \* Dict[UserRole, Set[WebSocket]]
    connections_by_user,    \* Dict[int, Set[WebSocket]]   (DOMAIN = the keys)
    connection_metadata,    \* Dict[WebSocket, dict]       (DOMAIN = the keys)
    \* coroutines of callers of the manager
    sending,                \* websockets with a suspended send_personal_message
    fan,                    \* the publisher task running one fan-out operation
    \* websocket_endpoint, one handler task per websocket
    pc,                     \* where the handler is suspended
    user,                   \* its local variable user (NoUser: None)
    stream,                 \* the transport of the websocket
    wire,                   \* its token, the last inbound action, the frame
                            \* of its send in flight, the frame delivered
    \* history
    disconnect_calls,       \* per websocket: calls of disconnect since it
                            \* was last registered (0 while registered)
    \* one HTTP client and its session
    now,                    \* datetime.now(timezone.utc), in minutes
    token,                  \* the access token the client holds
    orig_exp,               \* history: "exp" of the token issued by login
    resp                    \* the last response the client received

registry == <<active_connections, connections_by_role,
              connections_by_user, connection_metadata>>
gateway == <<pc, user, stream, wire>>
sockets == <<registry, sending, fan, gateway, disconnect_calls>>
session == <<now, token, orig_exp, resp>>
vars == <<active_connections, connections_by_role, connections_by_user,
          connection_metadata, sending, fan, pc, user, stream, wire,
          disconnect_calls, now, token, orig_exp, resp>>

\* ----------------------------------------------------------------- helpers
Range(s) == {s[i] : i \in 1..Len(s)}

RECURSIVE RemoveFirst(_, _)
\* list.remove(x): drops the first occurrence of x
RemoveFirst(s, x) ==
    IF s = <<>> THEN <<>>
    ELSE IF Head(s) = x THEN Tail(s)
    ELSE <<Head(s)>> \o RemoveFirst(Tail(s), x)

RECURSIVE SumOver(_, _)
SumOver(S, f) ==
    IF S = {} THEN 0
    ELSE LET x == CHOOSE y \in S : TRUE
         IN  Cardinality(f[x]) + SumOver(S \ {x}, f)

\* The manager's four containers as one value.
Manager ==
    [active |-> active_connections,
     by_role |-> connections_by_role,
     by_user |-> connections_by_user,
     meta |-> connection_metadata]

SetManager(m) ==
    /\ active_connections' = m.active
    /\ connections_by_role' = m.by_role
    /\ connections_by_user' = m.by_user
    /\ connection_metadata' = m.meta

EmptyManager ==
    [active |-> <<>>,
     by_role |-> [r \in UserRole |-> {}],
     by_user |-> [u \in {} |-> {}],
     meta |-> [w \in {} |-> [user_id |-> NoUser, role |-> ADMIN]]]

\* connect, lines 65-82: the four additions made without an await between
\* them. There is no test for an already registered websocket.
Register(m, ws, uid, role) ==
    [active |-> Append(m.active, ws),
     by_role |-> [m.by_role EXCEPT ![role] = @ \cup {ws}],
     by_user |-> [u \in (DOMAIN m.by_user) \cup {uid} |->
                    IF u = uid
                    THEN (IF uid \in DOMAIN m.by_user
                          THEN m.by_user[uid] ELSE {}) \cup {ws}
                    ELSE m.by_user[u]],
     meta |-> [w \in (DOMAIN m.meta) \cup {ws} |->
                    IF w = ws THEN [user_id |-> uid, role |-> role]
                    ELSE m.meta[w]]]

\* disconnect would raise ValueError at active_connections.remove
DisconnectRaises(m, ws) ==
    ws \in DOMAIN m.meta /\ ws \notin Range(m.active)

\* A disconnect that forgets "del self.connection_metadata[websocket]".
disconnect_keeps_metadata(m, ws) ==
    IF ws \in DOMAIN m.meta
    THEN [m EXCEPT !.active = RemoveFirst(m.active, ws),
                   !.by_role = [r \in UserRole |-> m.by_role[r] \ {ws}]]
    ELSE m

\* ConnectionManager.disconnect
disconnect(m, ws) ==
    IF ws \in DOMAIN m.meta /\ ~DisconnectRaises(m, ws)
    THEN LET user_id == m.meta[ws].user_id
             user_role == m.meta[ws].role
             discarded == IF user_id \in DOMAIN m.by_user
                          THEN m.by_user[user_id] \ {ws} ELSE {}
             keys == IF user_id \in DOMAIN m.by_user /\ discarded = {}
                     THEN (DOMAIN m.by_user) \ {user_id}
                     ELSE DOMAIN m.by_user
         IN  [active |-> RemoveFirst(m.active, ws),
              by_role |-> [m.by_role EXCEPT ![user_role] = @ \ {ws}],
              by_user |-> [u \in keys |->
                             IF u = user_id THEN discarded ELSE m.by_user[u]],
              meta |-> [w \in (DOMAIN m.meta) \ {ws} |-> m.meta[w]]]
    ELSE m

\* ConnectionManager.get_connection_stats
get_connection_stats(m) ==
    [total_connections |-> Len(m.active),
     connections_by_role |-> [r \in UserRole |-> Cardinality(m.by_role[r])],
     unique_users |-> Cardinality(DOMAIN m.by_user)]

\* ------------------------------------------------------- fan-out iteration
\* The publisher task: one call of send_to_user, broadcast_to_role or
\* broadcast_to_all, suspended on connection.send_json inside its for loop.
\*   visited / si_used / detached : the set iterator (CPython setiter)
\*   idx                          : the list iterator of broadcast_to_all
\*   disconnected                 : the local list of failed connections
\*   helper, roles                : the notify_* helper that made the call
\*                                  and the roles broadcast_to_roles has
\*                                  still to go through
\*   admins                       : the ADMIN connections registered when
\*                                  the helper was called
\*   snapshot, attempted, failed  : history of the call, kept in the state
\*                                  in which it returned ("returned") or
\*                                  raised ("raised"), dropped afterwards
FanIdle ==
    [pc |-> "idle", kind |-> "none", target_user |-> NoUser,
     target_role |-> ADMIN, cur |-> NoWS, visited |-> {}, idx |-> 0,
     si_used |-> 0, detached |-> FALSE, disconnected |-> <<>>,
     snapshot |-> {}, attempted |-> {}, failed |-> {},
     helper |-> "none", roles |-> <<>>, admins |-> {}]

\* The set object the for loop iterates: the role bucket itself
\* (connections_by_role.get(role, set())) or the user's set as it was
\* looked up when the loop began (connections_by_user[user_id]); once
\* disconnect has deleted that key the loop still holds the old, now empty,
\* set, whatever set is stored under the key later.
IterBucket(m, f) ==
    IF f.kind = "role" THEN m.by_role[f.target_role]
    ELSE IF f.kind = "user"
         THEN (IF f.detached \/ f.target_user \notin DOMAIN m.by_user
               THEN {} ELSE m.by_user[f.target_user])
    ELSE Range(m.active)

\* next() of the loop's iterator: the outcomes it can have.
\* A set iterator raises RuntimeError("Set changed size during iteration")
\* when len(set) differs from the length at its creation; otherwise it
\* yields the entries it has not passed yet: every one that was there from
\* the start, and possibly entries added since.  A list iterator yields
\* active_connections[idx] while idx < len(active_connections).
IterNext(m, f) ==
    IF f.kind = "all"
    THEN (IF f.idx < Len(m.active)
          THEN {[k |-> "yield", ws |-> m.active[f.idx + 1]]}
          ELSE {[k |-> "stop", ws |-> NoWS]})
    ELSE LET content == IterBucket(m, f)
             remaining == content \ f.visited
         IN  IF Cardinality(content) # f.si_used
             THEN {[k |-> "raise", ws |-> NoWS]}
             ELSE {[k |-> "yield", ws |-> w] : w \in remaining}
                  \cup (IF remaining \cap f.snapshot = {}
                        THEN {[k |-> "stop", ws |-> NoWS]} ELSE {})

RECURSIVE DisconnectAll(_, _)
\* "for conn in disconnected: self.disconnect(conn)"
DisconnectAll(m, conns) ==
    IF conns = <<>> THEN m
    ELSE DisconnectAll(disconnect(m, Head(conns)), Tail(conns))

\* The loop after next(): suspended on the next send, ended with the
\* clean-up loop, or left by the iterator's RuntimeError (no clean-up).
FanAdvance(m, f, out) ==
    IF out.k = "yield"
    THEN [f EXCEPT !.pc = "sending", !.cur = out.ws,
                   !.visited = @ \cup {out.ws}, !.idx = @ + 1,
                   !.attempted = @ \cup {out.ws}]
    ELSE IF out.k = "stop"
    THEN [f EXCEPT !.pc = "returned", !.cur = NoWS]
    ELSE [f EXCEPT !.pc = "raised", !.cur = NoWS]

FanManager(m, f, out) ==
    IF out.k = "stop" THEN DisconnectAll(m, f.disconnected) ELSE m

\* A loop body that leaves the loop when its send fails.
AfterSend_breaks_on_failure(f, ok) ==
    IF ok THEN f
    ELSE [f EXCEPT !.disconnected = Append(@, f.cur),
                   !.failed = @ \cup {f.cur},
                   !.visited = @ \cup f.snapshot]

\* The loop body after its await: "try: await connection.send_json(message)"
\* returned, or raised and "except Exception" appends the connection to the
\* local list disconnected.
AfterSend(f, ok) ==
    IF ok THEN f
    ELSE [f EXCEPT !.disconnected = Append(@, f.cur),
                   !.failed = @ \cup {f.cur}]

\* Where the loop can be after the send returned (ok) or raised: the
\* connection of its next send, its return, or the iterator's exception.
LoopOutcomes(m, f, ok) ==
    {[pc |-> FanAdvance(m, AfterSend(f, ok), out).pc, cur |-> out.ws] :
        out \in IterNext(m, AfterSend(f, ok))}

\* A step of another task that takes the manager from m to m2, as the
\* publisher sees it: deleting the key of the user whose set a suspended
\* loop iterates detaches that set; a call that has ended is forgotten.
FanSees(m, m2) ==
    IF fan.pc # "sending" THEN FanIdle
    ELSE IF /\ fan.kind = "user"
            /\ fan.target_user \in DOMAIN m.by_user
            /\ fan.target_user \notin DOMAIN m2.by_user
    THEN [fan EXCEPT !.detached = TRUE]
    ELSE fan

\* disconnect_calls after a call of disconnect(ws) on manager m.
CountCall(m, calls, ws) ==
    [calls EXCEPT ![ws] = IF ws \in DOMAIN m.meta THEN 1
                          ELSE IF @ = 0 THEN 0
                          ELSE IF @ < MaxCalls THEN @ + 1 ELSE @]

RECURSIVE CountAll(_, _, _)
CountAll(m, calls, conns) ==
    IF conns = <<>> THEN calls
    ELSE CountAll(disconnect(m, Head(conns)),
                  CountCall(m, calls, Head(conns)), Tail(conns))

FanCalls(m, f, out) ==
    IF out.k = "stop" THEN CountAll(m, disconnect_calls, f.disconnected)
    ELSE disconnect_calls

\* ------------------------------------------------------------------ Init
\* ------------------------------------------------------------------ tokens
\* Time is counted in minutes.  An access token is its payload; "kind"
\* tells a token signed by this server ("jwt") from a missing Authorization
\* header ("none") and from a string jwt.decode rejects ("invalid").
NoToken == [kind |-> "none", sub |-> "", exp |-> 0]
InvalidToken == [kind |-> "invalid", sub |-> "", exp |-> 0]
Username == "alice"
\* expires_delta = None (a zero timedelta is falsy as well)
NoDelta == 0

Max(a, b) == IF a >= b THEN a ELSE b

create_access_token(sub, expires_delta, t) ==
    [kind |-> "jwt",
     sub |-> sub,
     exp |-> IF expires_delta # NoDelta
             THEN t + expires_delta
             ELSE t + ACCESS_TOKEN_EXPIRE_MINUTES]

\* jwt.decode: the payload, or the exception raised.  A token is expired
\* when its "exp" lies before the current time.
decode_token(tok, t) ==
    IF tok.kind # "jwt" THEN "JWTError"
    ELSE IF tok.exp < t THEN "ExpiredSignatureError"
    ELSE "payload"

\* A test that also refreshes with exactly the threshold remaining.
should_refresh_token_at_threshold(tok, t) ==
    IF decode_token(tok, t) = "payload"
    THEN tok.exp - t <= TOKEN_REFRESH_THRESHOLD_MINUTES
    ELSE FALSE

\* security.should_refresh_token
should_refresh_token(tok, t) ==
    IF decode_token(tok, t) = "payload"
    THEN tok.exp - t < TOKEN_REFRESH_THRESHOLD_MINUTES
    ELSE FALSE

\* TokenRefreshManager.should_refresh_token
TokenRefreshManager_should_refresh_token(tok, threshold_minutes, t) ==
    IF decode_token(tok, t) = "payload"
    THEN tok.exp - t < threshold_minutes
    ELSE FALSE

get_token_remaining_duration(tok, t) ==
    IF decode_token(tok, t) = "payload"
    THEN Max(tok.exp - t, 1)
    ELSE ACCESS_TOKEN_EXPIRE_MINUTES

\* The two response headers of the sliding session.
NoHeaders == [x_new_token |-> NoToken, x_token_refreshed |-> FALSE]
NoResponse ==
    [status |-> 0, headers |-> NoHeaders, request |-> NoToken,
     scheme |-> "none", renew_ok |-> TRUE, endpoint |-> NoHeaders]

\* The scheme word of the Authorization header a client sends with its
\* token.
Schemes == {"Bearer", "bearer", "Basic"}

\* OAuth2PasswordBearer, the dependency of get_current_user: the token of
\* the header when its scheme is "bearer" in any case, else none (401).
oauth2_scheme(scheme, tok) ==
    IF scheme \in {"Bearer", "bearer"} THEN tok ELSE NoToken

\* A test of the header that accepts the scheme word in any case.
BearerToken_any_case(scheme, tok) ==
    IF scheme \in {"Bearer", "bearer"} THEN tok ELSE NoToken

\* auth_header.startswith("Bearer ") and the replace that follows, in
\* dispatch and in get_current_user_info: the token, or none when the
\* header is absent or does not start with that exact word.
BearerToken(scheme, tok) ==
    IF scheme = "Bearer" THEN tok ELSE NoToken

\* The dependency get_current_user: the status it leads to and the headers
\* it has put on the injected response.  Its renewal is not inside a try:
\* an exception of create_access_token leaves the dependency.
get_current_user(tok, t, renew_ok) ==
    IF decode_token(tok, t) # "payload"
    THEN [status |-> 401, headers |-> NoHeaders]
    ELSE IF should_refresh_token(tok, t) /\ ~renew_ok
    THEN [status |-> 500, headers |-> NoHeaders]
    ELSE [status |-> 200,
          headers |->
            IF should_refresh_token(tok, t)
            THEN [NoHeaders EXCEPT !.x_new_token =
                    create_access_token(tok.sub,
                        get_token_remaining_duration(tok, t), t)]
            ELSE NoHeaders]

\* GET /me, after its dependency has returned with the headers h: its
\* status and headers.
get_current_user_info(tok, h, t, renew_ok) ==
    IF tok.kind # "none" /\ should_refresh_token(tok, t)
    THEN IF renew_ok
         THEN [status |-> 200,
               headers |->
                 [x_new_token |->
                    create_access_token(tok.sub,
                        get_token_remaining_duration(tok, t), t),
                  x_token_refreshed |-> TRUE]]
         ELSE [status |-> 500, headers |-> NoHeaders]
    ELSE [status |-> 200, headers |-> h]

\* SlidingTokenMiddleware.dispatch, after call_next has returned the
\* response with the headers h.  An exception of the renewal is caught.
dispatch(tok, h, t, renew_ok) ==
    IF /\ tok.kind # "none"
       /\ TokenRefreshManager_should_refresh_token(
              tok, TOKEN_REFRESH_THRESHOLD_MINUTES, t)
       /\ tok.sub # ""
       /\ renew_ok
    THEN [x_new_token |-> create_access_token(tok.sub, NoDelta, t),
          x_token_refreshed |-> TRUE]
    ELSE h

\* A token whose "exp" has passed when the handlers run.
ExpiredToken == [kind |-> "jwt", sub |-> Username, exp |-> 0 - 1]

\* What a handler has exchanged with its client: the token of the query
\* string, the exception message of get_user_from_token ("" if none), the
\* action of the last inbound message, the frame of the handler's send in
\* flight, and the frame its last completed send delivered (since the
\* connect or the last receive).
NoWire ==
    [cred |-> NoToken, error |-> "", action |-> "none", frame |-> "none",
     delivered |-> "none"]

Init ==
    /\ active_connections = EmptyManager.active
    /\ connections_by_role = EmptyManager.by_role
    /\ connections_by_user = EmptyManager.by_user
    /\ connection_metadata = EmptyManager.meta
    /\ sending = {}
    /\ fan = FanIdle
    /\ disconnect_calls = [ws \in WS |-> 0]
    /\ pc = [ws \in WS |-> "connecting"]
    /\ user = [ws \in WS |-> NoUser]
    /\ stream = [ws \in WS |-> "alive"]
    /\ wire = [ws \in WS |-> NoWire]
    /\ now = 0
    /\ token = NoToken
    /\ orig_exp = 0
    /\ resp = NoResponse

\* --------------------------------------------------- manager API, by call
\* A connect that registers and sends no welcome.
Welcome_not_sent(snd, ws) == snd

\* connect, lines 89-98: the call of send_personal_message with the
\* welcome frame, up to its await of websocket.send_json; snd is the set
\* of websockets with a personal send in flight.
Welcome(snd, ws) == snd \cup {ws}

\* ConnectionManager.connect up to its second await: websocket.accept()
\* returns or raises; on return the websocket is added to the four
\* containers and the coroutine suspends in send_personal_message (welcome).
connect(ws, uid) ==
    \/ /\ Len(active_connections) < MaxActive
       /\ SetManager(Register(Manager, ws, uid, RoleOfUser(uid)))
       /\ sending' = Welcome(sending, ws)
       /\ fan' = FanSees(Manager, Manager)
       /\ disconnect_calls' = [disconnect_calls EXCEPT ![ws] = 0]
       /\ UNCHANGED <<gateway, session>>
    \/ /\ fan' = FanSees(Manager, Manager)
       /\ UNCHANGED <<registry, sending, disconnect_calls, gateway,
                    session>>

\* A direct call of ConnectionManager.disconnect.
Disconnect(ws) ==
    /\ UNCHANGED <<gateway, session>>
    /\ SetManager(disconnect(Manager, ws))
    /\ fan' = FanSees(Manager, disconnect(Manager, ws))
    /\ disconnect_calls' = CountCall(Manager, disconnect_calls, ws)
    /\ UNCHANGED sending

\* send_personal_message up to its await of websocket.send_json.
SendPersonalStart(ws) ==
    /\ UNCHANGED <<gateway, session>>
    /\ ws \notin sending
    /\ sending' = sending \cup {ws}
    /\ fan' = FanSees(Manager, Manager)
    /\ UNCHANGED <<registry, disconnect_calls>>

\* send_personal_message after the await: send_json returned, or raised
\* and the except block calls disconnect.
SendPersonalDone(ws) ==
    /\ UNCHANGED <<gateway, session>>
    /\ ws \in sending
    /\ sending' = sending \ {ws}
    /\ \/ /\ fan' = FanSees(Manager, Manager)
          /\ UNCHANGED <<registry, disconnect_calls>>
       \/ /\ SetManager(disconnect(Manager, ws))
          /\ fan' = FanSees(Manager, disconnect(Manager, ws))
          /\ disconnect_calls' = CountCall(Manager, disconnect_calls, ws)

\* send_to_user / broadcast_to_role / broadcast_to_all from the call to
\* the first await (or to the return when there is nothing to send).
FanBegin(kind, uid, role) ==
    /\ UNCHANGED <<gateway, session>>
    /\ fan.pc # "sending"
    /\ LET f0 == [FanIdle EXCEPT !.kind = kind, !.target_user = uid,
                                 !.target_role = role]
           f1 == [f0 EXCEPT !.si_used = Cardinality(IterBucket(Manager, f0)),
                            !.snapshot = IterBucket(Manager, f0)]
       IN  \E out \in IterNext(Manager, f1) :
              /\ fan' = FanAdvance(Manager, f1, out)
              /\ SetManager(FanManager(Manager, f1, out))
              /\ disconnect_calls' = FanCalls(Manager, f1, out)
    /\ UNCHANGED sending

send_to_user(uid) == FanBegin("user", uid, ADMIN)
broadcast_to_role(role) == FanBegin("role", NoUser, role)
broadcast_to_all == FanBegin("all", NoUser, ADMIN)

\* The for loop from the return of one send_json to the next await: the
\* send returned or raised (the connection is appended to disconnected),
\* then next() of the iterator.
FanStep ==
    /\ UNCHANGED <<gateway, session>>
    /\ fan.pc = "sending"
    /\ \E ok \in BOOLEAN :
         LET f1 == AfterSend(fan, ok)
         IN  \E out \in IterNext(Manager, f1) :
                /\ fan' = FanAdvance(Manager, f1, out)
                /\ SetManager(FanManager(Manager, f1, out))
                /\ disconnect_calls' = FanCalls(Manager, f1, out)
    /\ UNCHANGED sending

Next ==
    \/ \E ws \in WS, uid \in Users : connect(ws, uid)
    \/ \E ws \in WS : Disconnect(ws)
    \/ \E ws \in WS : SendPersonalStart(ws)
    \/ \E ws \in WS : SendPersonalDone(ws)
    \/ \E uid \in Users : send_to_user(uid)
    \/ \E role \in UserRole : broadcast_to_role(role)
    \/ broadcast_to_all
    \/ FanStep

Spec == Init /\ [][Next]_vars

\* ================================================================ gateway
\* websocket_endpoint: one handler task per websocket.  pc[ws] is the await
\* on which the handler is suspended:
\*   "connecting"  before get_user_from_token / manager.connect have run
\*   "welcome"     in manager.connect, in send_personal_message (welcome)
\*   "open"        in the while loop, in websocket.receive_json()
\*   "replying"    in the loop, in send_personal_message (pong, stats,
\*                 connected_users or the unknown-action error)
\*   "except_send" in the loop's "except Exception", in
\*                 send_personal_message (error frame)
\*   "closed"      the handler has returned
\* stream[ws] is the transport: "alive"; "closed" (the client closed it:
\* receive raises WebSocketDisconnect); "broken" (receive raises another
\* exception, e.g. RuntimeError).  A send on a stream that is not alive
\* raises.
ClientActions == {"ping", "get_stats", "get_connected_users", "subscribe"}

\* A send that unregisters the connection whatever its outcome.
send_personal_message_then_disconnect(m, ws, sent) == disconnect(m, ws)

\* send_personal_message: the manager after websocket.send_json returned
\* or raised (the except block calls disconnect).
send_personal_message(m, ws, sent) ==
    IF sent THEN m ELSE disconnect(m, ws)

\* A finally block that forgets the cleanup.
Finally_without_disconnect(m, ws, u) == m

\* "finally: if user: manager.disconnect(websocket)"
Finally(m, ws, u) ==
    IF u # NoUser THEN disconnect(m, ws) ELSE m

FinallyCalls(m, calls, ws, u) ==
    IF u # NoUser THEN CountCall(m, calls, ws) ELSE calls

\* The tokens a client may put in the query string: one login has just
\* issued, an expired one and one the server did not sign.
Credentials ==
    {create_access_token(Username, NoDelta, 0), ExpiredToken, InvalidToken}

\* websockets.get_user_from_token: the message of the exception it raises,
\* "" when it returns the user.  jose's ExpiredSignatureError is a
\* JWTError, so "except JWTError" is the clause that catches it.
get_user_from_token(tok, t) ==
    IF decode_token(tok, t) \in {"JWTError", "ExpiredSignatureError"}
    THEN "Invalid token"
    ELSE IF tok.sub = "" THEN "Invalid token: no username"
    ELSE ""

\* The outer "except Exception" of websocket_endpoint: the frame its
\* websocket.send_json delivers.  A websocket whose handshake has not been
\* accepted cannot carry a frame: send_json raises and the bare except
\* swallows it.
OuterExceptFrame(accepted, transport) ==
    IF accepted /\ transport = "alive" THEN "error_auth" ELSE "none"

\* The handler from its start to its first await on a send: authentication
\* fails (outer except: error frame, close; user is None), or succeeds and
\* websocket.accept() raises (outer except, then finally with user set), or
\* succeeds and the websocket is registered.
HandlerConnect(ws) ==
    /\ pc[ws] = "connecting"
    /\ \/ \E cred \in Credentials :
             /\ get_user_from_token(cred, now) # ""
             /\ pc' = [pc EXCEPT ![ws] = "closed"]
             /\ wire' = [wire EXCEPT ![ws] =
                    [NoWire EXCEPT
                        !.cred = cred,
                        !.error = get_user_from_token(cred, now),
                        !.delivered = OuterExceptFrame(FALSE, stream[ws])]]
             /\ SetManager(Finally(Manager, ws, NoUser))
             /\ UNCHANGED <<user, disconnect_calls>>
       \/ \E cred \in Credentials, uid \in Users :
             /\ get_user_from_token(cred, now) = ""
             /\ user' = [user EXCEPT ![ws] = uid]
             /\ pc' = [pc EXCEPT ![ws] = "closed"]
             /\ wire' = [wire EXCEPT ![ws] =
                    [NoWire EXCEPT
                        !.cred = cred,
                        !.delivered = OuterExceptFrame(FALSE, stream[ws])]]
             /\ SetManager(Finally(Manager, ws, uid))
             /\ disconnect_calls' =
                    FinallyCalls(Manager, disconnect_calls, ws, uid)
       \/ \E cred \in Credentials, uid \in Users :
             /\ get_user_from_token(cred, now) = ""
             /\ Len(active_connections) < MaxActive
             /\ user' = [user EXCEPT ![ws] = uid]
             /\ pc' = [pc EXCEPT ![ws] = "welcome"]
             /\ wire' = [wire EXCEPT ![ws] =
                    [NoWire EXCEPT !.cred = cred,
                                   !.frame = "connection_established"]]
             /\ SetManager(Register(Manager, ws, uid, RoleOfUser(uid)))
             /\ disconnect_calls' = [disconnect_calls EXCEPT ![ws] = 0]
    /\ UNCHANGED <<stream, sending, fan, session>>

\* A send_personal_message of the handler returns: the welcome of connect
\* (the loop is entered next), a reply, or the error frame of the loop's
\* except block (the loop goes on).
HandlerSendDone(ws, at) ==
    /\ pc[ws] = at
    /\ pc' = [pc EXCEPT ![ws] = "open"]
    /\ SetManager(send_personal_message(Manager, ws, stream[ws] = "alive"))
    /\ wire' = [wire EXCEPT
                  ![ws].frame = "none",
                  ![ws].delivered = IF stream[ws] = "alive"
                                    THEN wire[ws].frame ELSE "none"]
    /\ disconnect_calls' =
          IF stream[ws] = "alive" THEN disconnect_calls
          ELSE CountCall(Manager, disconnect_calls, ws)
    /\ UNCHANGED <<user, stream, sending, fan, session>>

HandlerWelcomeDone(ws) == HandlerSendDone(ws, "welcome")
HandlerReplyDone(ws) == HandlerSendDone(ws, "replying")
HandlerExceptDone(ws) == HandlerSendDone(ws, "except_send")

\* A handler that answers the two admin actions whoever asks.
AfterAction_without_admin_check(action, u) == "replying"

\* The await after a client message with the given action, lines 110-157:
\* the admin-only actions of a non-admin are ignored.
AfterAction(action, u) ==
    IF action \in {"get_stats", "get_connected_users"}
       /\ RoleOfUser(u) # ADMIN
    THEN "open"
    ELSE "replying"

\* A handler that reads a ping and answers nothing.
ReplyFrame_without_pong(action, u) ==
    IF action = "get_stats" /\ RoleOfUser(u) = ADMIN THEN "stats"
    ELSE IF action = "get_connected_users" /\ RoleOfUser(u) = ADMIN
         THEN "connected_users"
    ELSE IF action \in {"ping", "get_stats", "get_connected_users"}
         THEN "none"
    ELSE "error_unknown_action"

\* A handler that answers an unknown action with nothing.
ReplyFrame_ignores_unknown(action, u) ==
    IF action = "ping" THEN "pong"
    ELSE IF action = "get_stats" /\ RoleOfUser(u) = ADMIN THEN "stats"
    ELSE IF action = "get_connected_users" /\ RoleOfUser(u) = ADMIN
         THEN "connected_users"
    ELSE "none"

\* The frame the handler sends for a client message, lines 112-157
\* ("none": it sends nothing).
ReplyFrame(action, u) ==
    IF action = "ping" THEN "pong"
    ELSE IF action = "get_stats"
         THEN (IF RoleOfUser(u) = ADMIN THEN "stats" ELSE "none")
    ELSE IF action = "get_connected_users"
         THEN (IF RoleOfUser(u) = ADMIN THEN "connected_users" ELSE "none")
    ELSE "error_unknown_action"

\* websocket.receive_json() returns a message of the client, or raises on
\* a malformed frame (except Exception), on a closed stream
\* (WebSocketDisconnect: break, then finally) or on a broken stream
\* (except Exception).
HandlerReceive(ws) ==
    /\ pc[ws] = "open"
    /\ \/ /\ stream[ws] = "alive"
          /\ \E action \in ClientActions :
                /\ pc' = [pc EXCEPT ![ws] = AfterAction(action, user[ws])]
                /\ wire' = [wire EXCEPT
                              ![ws].action = action,
                              ![ws].frame = ReplyFrame(action, user[ws]),
                              ![ws].delivered = "none"]
          /\ UNCHANGED <<registry, disconnect_calls>>
       \/ /\ stream[ws] \in {"alive", "broken"}
          /\ pc' = [pc EXCEPT ![ws] = "except_send"]
          /\ wire' = [wire EXCEPT ![ws].action = "none",
                                  ![ws].frame = "error_processing",
                                  ![ws].delivered = "none"]
          /\ UNCHANGED <<registry, disconnect_calls>>
       \/ /\ stream[ws] = "closed"
          /\ pc' = [pc EXCEPT ![ws] = "closed"]
          /\ wire' = [wire EXCEPT ![ws].action = "none",
                                  ![ws].delivered = "none"]
          /\ SetManager(Finally(Manager, ws, user[ws]))
          /\ disconnect_calls' =
                 FinallyCalls(Manager, disconnect_calls, ws, user[ws])
    /\ UNCHANGED <<user, stream, sending, fan, session>>

\* The handler task is cancelled at an await (CancelledError is not an
\* Exception): only the finally block runs.
HandlerCancelled(ws) ==
    /\ pc[ws] \in {"welcome", "open", "replying", "except_send"}
    /\ pc' = [pc EXCEPT ![ws] = "closed"]
    /\ wire' = [wire EXCEPT ![ws].frame = "none"]
    /\ SetManager(Finally(Manager, ws, user[ws]))
    /\ disconnect_calls' =
          FinallyCalls(Manager, disconnect_calls, ws, user[ws])
    /\ UNCHANGED <<user, stream, sending, fan, session>>

\* The client closes the stream.
ClientClose(ws) ==
    /\ stream[ws] = "alive"
    /\ stream' = [stream EXCEPT ![ws] = "closed"]
    /\ UNCHANGED <<registry, sending, fan, pc, user, wire,
                   disconnect_calls, session>>

\* The transport fails, or the server side of the websocket has left the
\* CONNECTED state: from now on receive raises an exception that is not
\* WebSocketDisconnect.
StreamBreak(ws) ==
    /\ stream[ws] \in {"alive", "closed"}
    /\ stream' = [stream EXCEPT ![ws] = "broken"]
    /\ UNCHANGED <<registry, sending, fan, pc, user, wire,
                   disconnect_calls, session>>

HandlerStep(ws) ==
    \/ HandlerConnect(ws)
    \/ HandlerWelcomeDone(ws)
    \/ HandlerReceive(ws)
    \/ HandlerReplyDone(ws)
    \/ HandlerExceptDone(ws)

NextGateway ==
    \/ \E ws \in WS : HandlerStep(ws)
    \/ \E ws \in WS : HandlerCancelled(ws)
    \/ \E ws \in WS : ClientClose(ws)
    \/ \E ws \in WS : StreamBreak(ws)

SpecGateway == Init /\ [][NextGateway]_vars

\* ------------------------------------------------------------------ session
\* One HTTP client.  Every request passes through the middleware stack of
\* main.py; the client sends the token it holds in its Authorization header.
\*
\* The response of one request, as it leaves the middleware.  An
\* exception that leaves the endpoint or its dependency (status 500) leaves
\* call_next as well: dispatch does not go on, and the server answers with
\* its own error response.
Respond(scheme, renew_ok, status, h) ==
    /\ resp' = [status |-> status,
                headers |-> IF status = 500 THEN NoHeaders
                            ELSE dispatch(BearerToken(scheme, token), h,
                                          now, renew_ok),
                request |-> token,
                scheme |-> scheme,
                renew_ok |-> renew_ok,
                endpoint |-> IF status = 500 THEN NoHeaders ELSE h]
    /\ UNCHANGED <<now, token, orig_exp, sockets>>

\* POST /login with valid credentials: a token of the default lifetime.
\* There is no Authorization header on this request.
Login ==
    /\ token' = create_access_token(Username, NoDelta, now)
    /\ orig_exp' = token'.exp
    /\ resp' = NoResponse
    /\ UNCHANGED <<now, sockets>>

\* GET /me
RequestMe ==
    \E scheme \in Schemes, renew_ok \in BOOLEAN :
        LET dep == get_current_user(oauth2_scheme(scheme, token), now,
                                    renew_ok)
            me == get_current_user_info(BearerToken(scheme, token),
                                        dep.headers, now, renew_ok)
        IN  IF dep.status = 200
            THEN Respond(scheme, renew_ok, me.status, me.headers)
            ELSE Respond(scheme, renew_ok, dep.status, NoHeaders)

\* Any other endpoint that depends on get_current_user: it returns, and
\* the headers of the dependency are merged into the response, or it
\* raises an HTTPException, and they are not.
RequestProtected ==
    \E scheme \in Schemes, renew_ok \in BOOLEAN :
        LET dep == get_current_user(oauth2_scheme(scheme, token), now,
                                    renew_ok)
        IN  IF dep.status = 200
            THEN \/ Respond(scheme, renew_ok, 200, dep.headers)
                 \/ Respond(scheme, renew_ok, 404, NoHeaders)
            ELSE Respond(scheme, renew_ok, dep.status, NoHeaders)

\* An endpoint without authentication, called with the header set.
RequestPublic ==
    \E scheme \in Schemes, renew_ok \in BOOLEAN :
        Respond(scheme, renew_ok, 200, NoHeaders)

\* The client replaces its token by the X-New-Token of the response.
Adopt ==
    /\ resp.headers.x_new_token # NoToken
    /\ token' = resp.headers.x_new_token
    /\ resp' = NoResponse
    /\ UNCHANGED <<now, orig_exp, sockets>>

\* The client drops its token, or sends one the server did not sign.
Forget ==
    /\ token' \in {NoToken, InvalidToken}
    /\ token' # token
    /\ orig_exp' = 0
    /\ resp' = NoResponse
    /\ UNCHANGED <<now, sockets>>

Tick ==
    /\ now < MaxTime
    /\ now' = now + 1
    /\ resp' = NoResponse
    /\ UNCHANGED <<token, orig_exp, sockets>>

NextSession ==
    \/ Login
    \/ RequestMe
    \/ RequestProtected
    \/ RequestPublic
    \/ Adopt
    \/ Forget
    \/ Tick

SpecSession == Init /\ [][NextSession]_vars

\* ------------------------------------------------------------------- issue
\* create_access_token and decode_token as functions: a caller issues a
\* token for a subject with a lifetime of its choice, and time passes.
\* orig_exp is the time of issuance plus the lifetime asked for; resp
\* records the arguments of the call.
Subjects == {"alice", "bob"}

IssueToken(sub, lifetime) ==
    /\ token' = create_access_token(sub, lifetime, now)
    /\ orig_exp' = now + lifetime
    /\ resp' = [NoResponse EXCEPT
                  !.request = [kind |-> "issue", sub |-> sub, exp |-> lifetime]]
    /\ UNCHANGED <<now, sockets>>

NextIssue ==
    \/ \E sub \in Subjects, lifetime \in 1..MaxLifetime :
          IssueToken(sub, lifetime)
    \/ Tick

SpecIssue == Init /\ [][NextIssue]_vars

\* ----------------------------------------------------------- active client
\* A client that stays active: it sends every request to an endpoint that
\* authenticates it, adopts every X-New-Token before it does anything else,
\* and never lets the clock advance on a token that is inside the refresh
\* window without having had a request with that token answered.
InWindow(tok, t) ==
    /\ decode_token(tok, t) = "payload"
    /\ tok.exp - t < TOKEN_REFRESH_THRESHOLD_MINUTES

ActiveTick ==
    /\ resp.headers.x_new_token = NoToken
    /\ InWindow(token, now) =>
          /\ resp.status # 0
          /\ resp.request = token
          /\ oauth2_scheme(resp.scheme, resp.request) = token
    /\ Tick

NextActive ==
    \/ Login
    \/ RequestMe
    \/ RequestProtected
    \/ Adopt
    \/ ActiveTick

SpecActive == Init /\ [][NextActive]_vars

\* ------------------------------------------------------ stream and clock
\* The clock passes the expiry of the token a running handler was
\* authenticated with.  No handler reads the clock after connect, so the
\* minutes in between are one step.
CredentialExpires(ws) ==
    /\ pc[ws] \notin {"connecting", "closed"}
    /\ decode_token(wire[ws].cred, now) = "payload"
    /\ wire[ws].cred.exp + 1 <= MaxTime
    /\ now' = wire[ws].cred.exp + 1
    /\ UNCHANGED <<token, orig_exp, resp, sockets>>

NextStream ==
    \/ NextGateway
    \/ \E ws \in WS : CredentialExpires(ws)

SpecStream == Init /\ [][NextStream]_vars

\* ----------------------------------------------------------- notify helpers
\* The roles each helper passes to broadcast_to_roles, in its order.
RolesOfHelper ==
    [notify_order_created |-> <<KITCHEN, WAITER, ADMIN>>,
     notify_order_ready |-> <<WAITER, ADMIN>>,
     notify_table_status_change |-> <<WAITER, ADMIN>>,
     notify_inventory_alert |-> <<KITCHEN, ADMIN>>]

RoleHelpers == DOMAIN RolesOfHelper

AdminsOf(m) == {ws \in DOMAIN m.meta : m.meta[ws].role = ADMIN}

\* The iterator of a loop that is about to begin on the bucket of f.
FreshIterator(m, f) ==
    [f EXCEPT !.visited = {}, !.idx = 0, !.detached = FALSE,
              !.disconnected = <<>>,
              !.si_used = Cardinality(IterBucket(m, f)),
              !.snapshot = IterBucket(m, f)]

RECURSIVE broadcast_to_roles(_, _, _)
\* "for role in roles: await self.broadcast_to_role(message, role)" from
\* the head of f.roles on, up to its first await: the states it can be in
\* then (suspended on a send, or returned).  A role whose bucket is empty
\* costs no await.
broadcast_to_roles(m, f, calls) ==
    IF f.roles = <<>>
    THEN {[fan |-> [f EXCEPT !.pc = "returned", !.cur = NoWS],
           m |-> m, calls |-> calls]}
    ELSE LET f1 == FreshIterator(m,
                     [f EXCEPT !.kind = "role",
                               !.target_role = Head(f.roles),
                               !.roles = Tail(f.roles)])
         IN  UNION {IF out.k = "stop"
                    THEN broadcast_to_roles(m, f1, calls)
                    ELSE {[fan |-> FanAdvance(m, f1, out), m |-> m,
                           calls |-> calls]} :
                    out \in IterNext(m, f1)}

\* One of the four helpers that publish to roles, up to its first await.
NotifyRoles(helper) ==
    /\ fan.pc # "sending"
    /\ \E o \in broadcast_to_roles(Manager,
                    [FanIdle EXCEPT !.helper = helper,
                                    !.roles = RolesOfHelper[helper],
                                    !.admins = AdminsOf(Manager)],
                    disconnect_calls) :
          /\ fan' = o.fan
          /\ SetManager(o.m)
          /\ disconnect_calls' = o.calls
    /\ UNCHANGED <<sending, gateway, session>>

\* notify_user_action: manager.send_to_user(message, user_id), up to its
\* first await.
notify_user_action(uid) ==
    /\ fan.pc # "sending"
    /\ LET f1 == FreshIterator(Manager,
                    [FanIdle EXCEPT !.helper = "notify_user_action",
                                    !.kind = "user", !.target_user = uid,
                                    !.admins = AdminsOf(Manager)])
       IN  \E out \in IterNext(Manager, f1) :
              /\ fan' = FanAdvance(Manager, f1, out)
              /\ UNCHANGED <<registry, disconnect_calls>>
    /\ UNCHANGED <<sending, gateway, session>>

\* A helper from the return of one send_json to its next await: the rest of
\* the loop of the role (or user) at hand, its clean-up, and the roles that
\* follow.  The iterator's RuntimeError leaves the helper.
NotifyStep ==
    /\ fan.pc = "sending"
    /\ fan.helper # "none"
    /\ \E ok \in BOOLEAN :
         LET f1 == AfterSend(fan, ok)
         IN  \E out \in IterNext(Manager, f1) :
                IF out.k = "stop"
                THEN \E o \in broadcast_to_roles(
                                 FanManager(Manager, f1, out), f1,
                                 FanCalls(Manager, f1, out)) :
                        /\ fan' = o.fan
                        /\ SetManager(o.m)
                        /\ disconnect_calls' = o.calls
                ELSE /\ fan' = FanAdvance(Manager, f1, out)
                     /\ UNCHANGED <<registry, disconnect_calls>>
    /\ UNCHANGED <<sending, gateway, session>>

NextNotify ==
    \/ \E ws \in WS, uid \in Users : connect(ws, uid)
    \/ \E ws \in WS : Disconnect(ws)
    \/ \E helper \in RoleHelpers : NotifyRoles(helper)
    \/ \E uid \in Users : notify_user_action(uid)
    \/ NotifyStep

SpecNotify == Init /\ [][NextNotify]_vars

\* The event loop runs every task that is ready: a handler whose await
\* has completed takes its next step.
SpecGatewayFair ==
    SpecGateway /\ \A ws \in WS : WF_vars(HandlerStep(ws))

\* ======================================================= registry claims
InActive(m, ws) == ws \in Range(m.active)
RoleBuckets(m, ws) == {r \in UserRole : ws \in m.by_role[r]}
UserBuckets(m, ws) == {u \in DOMAIN m.by_user : ws \in m.by_user[u]}
Absent(m, ws) ==
    /\ ~InActive(m, ws)
    /\ RoleBuckets(m, ws) = {}
    /\ UserBuckets(m, ws) = {}
    /\ ws \notin DOMAIN m.meta
FullyRegistered(m, ws) ==
    /\ ws \in DOMAIN m.meta
    /\ Cardinality(RoleBuckets(m, ws)) = 1
    /\ Cardinality(UserBuckets(m, ws)) = 1

\* C1: after any sequence of connect and disconnect calls,
\* stats().total_connections equals the number of websockets in the
\* by-connection view (connection_metadata) and the sum of the per-role
\* counts.
C1_StatsConsistent ==
    LET stats == get_connection_stats(Manager)
    IN  /\ stats.total_connections = Cardinality(DOMAIN connection_metadata)
        /\ stats.total_connections = SumOver(UserRole, connections_by_role)

\* C2: in every state between atomic steps a websocket is either in no
\* view at all or in connection_metadata, in exactly one role bucket and
\* in exactly one user bucket.
C2_NoPartialRegistration ==
    \A ws \in WS : Absent(Manager, ws) \/ FullyRegistered(Manager, ws)

\* C3: a connect call on a websocket that is already registered leaves
\* the registry unchanged (it is rejected, it neither overwrites nor
\* duplicates the entry).
C3_DuplicateRegisterRejected ==
    [][\A ws \in WS, uid \in Users :
          (ws \in DOMAIN connection_metadata /\ connect(ws, uid))
              => UNCHANGED registry]_vars

\* C4: disconnect is idempotent: for every registry state and websocket a
\* second call yields the state of the first, a call on a websocket that
\* is not registered changes nothing, and neither call raises.
C4_DisconnectIdempotent ==
    \A ws \in WS :
        LET once == disconnect(Manager, ws)
        IN  /\ ~DisconnectRaises(Manager, ws)
            /\ ~DisconnectRaises(once, ws)
            /\ disconnect(once, ws) = once
            /\ (ws \notin DOMAIN connection_metadata => once = Manager)

\* C4 witness: a websocket was registered, then disconnect was called on
\* it twice.
C4_Witness ==
    \E ws \in WS :
        disconnect_calls[ws] = 2 /\ ws \notin DOMAIN connection_metadata

\* C7: a fan-out whose bucket is changed by another task while it is
\* suspended on a send does not raise, and it attempts every connection
\* that was in the bucket when it began and is still registered.
C7_FanOutIteratesSnapshot ==
    /\ fan.pc # "raised"
    /\ fan.pc = "returned" =>
          \A ws \in fan.snapshot :
              ws \in fan.attempted \/ ws \notin DOMAIN connection_metadata

\* C10: when a send fails inside a fan-out, the connection is in no
\* registry view when the operation ends.
C10_FailedSendUnregisters ==
    fan.pc \in {"returned", "raised"} =>
        \A ws \in fan.failed : Absent(Manager, ws)


\* ---------------------------------------------------------------- gateway
\* C8 (as stated): once a gateway connection has been registered,
\* disconnect is invoked exactly once for it, whichever path terminates the
\* handler: a closed handler has at most one disconnect call on its
\* registered websocket.
C8_UnregisterExactlyOnce ==
    \A ws \in WS : pc[ws] = "closed" => disconnect_calls[ws] <= 1

\* C8 (amended): when the handler of a registered connection terminates,
\* disconnect has been invoked on it at least once (a second invocation,
\* after a failed send inside the loop, changes nothing) and the connection
\* is in no registry view; a handler that terminates before connect
\* registered the websocket leaves the registry unchanged.
C8_UnregisterOnEveryExit ==
    [][\A ws \in WS :
          /\ pc'[ws] = "closed" => Absent(Manager', ws)
          /\ (pc[ws] = "connecting" /\ pc'[ws] = "closed")
                => registry' = registry
          /\ (pc[ws] \notin {"connecting", "closed"} /\ pc'[ws] = "closed")
                => disconnect_calls'[ws] >= 1]_vars

C8_Witness ==
    \E ws \in WS : pc[ws] = "closed" /\ disconnect_calls[ws] = 2

\* C9: every handler in the read loop whose stream is closed by the client
\* or whose receive raises eventually leaves the loop and terminates.
C9_DeadStreamHandlerCloses ==
    \A ws \in WS :
        (pc[ws] = "open" /\ stream[ws] # "alive") ~> (pc[ws] = "closed")

\* ---------------------------------------------------------------- session
\* C5: whenever a response carries a renewed token, the X-New-Token the
\* client receives expires when the token of the request expires.
C5_RenewalPreservesRemaining ==
    resp.headers.x_new_token # NoToken
        => resp.headers.x_new_token.exp = resp.request.exp

\* C6: without a new login, no renewed token expires later than the token
\* login issued.
C6_RenewalNeverExtends ==
    resp.headers.x_new_token # NoToken
        => resp.headers.x_new_token.exp <= orig_exp

\* ---------------------------------------------------------------- fan-out
\* C11: in send_to_user and broadcast_to_role a send that raises is caught
\* inside the loop: the loop goes on exactly as after a send that returned
\* (the same next recipients, the same end), so the failure neither stops
\* the attempts to the other recipients nor reaches the caller.
C11_SendFailureIsolated ==
    (fan.pc = "sending" /\ fan.kind \in {"user", "role"})
        => LoopOutcomes(Manager, fan, FALSE) = LoopOutcomes(Manager, fan, TRUE)

\* A send of the fan-out has failed and the loop is at another recipient.
C11_Witness ==
    /\ fan.pc = "sending"
    /\ fan.kind \in {"user", "role"}
    /\ fan.failed # {}
    /\ fan.cur \notin fan.failed

\* The connections whose registration (connection_metadata) names role r.
RegisteredWithRole(m, r) ==
    {ws \in DOMAIN m.meta : m.meta[ws].role = r}

\* The step puts the fan-out on a new send.
NewAttempt ==
    fan'.pc = "sending" /\ (fan.pc # "sending" \/ fan'.visited # fan.visited)

\* C12: broadcast_to_role(r) attempts a send only to connections that are
\* registered with role r when the send is attempted, and when it ends it
\* has attempted every connection that was in the bucket of r at the call
\* and is still registered with role r.
C12_BroadcastReachesExactlyRole ==
    [][fan'.kind = "role" =>
          /\ NewAttempt =>
                fan'.cur \in RegisteredWithRole(Manager', fan'.target_role)
          /\ (fan.pc = "sending" /\ fan'.pc \in {"returned", "raised"}) =>
                (fan'.snapshot
                    \cap RegisteredWithRole(Manager, fan'.target_role))
                \subseteq fan'.attempted]_vars

\* The connections a caller of the manager can see in some view.
Visible(m) ==
    Range(m.active) \cup (DOMAIN m.meta)
        \cup UNION {m.by_role[r] : r \in DOMAIN m.by_role}
        \cup UNION {m.by_user[u] : u \in DOMAIN m.by_user}

\* C13: the step of connect that makes a websocket visible in the registry
\* is the step that calls send_json with its welcome frame, and a fan-out
\* calls send_json only on a websocket that was visible before that call:
\* the send of the welcome is the first send issued to the new connection.
C13_WelcomeIsFirstFrame ==
    [][/\ \A ws \in WS :
             (ws \notin Visible(Manager) /\ ws \in Visible(Manager'))
                => ws \in sending'
       /\ NewAttempt => fan'.cur \in Visible(Manager)]_vars

\* A fan-out is suspended on a send to a connection whose welcome is still
\* in flight.
C13_Witness ==
    \E ws \in WS :
        /\ ws \in sending
        /\ ws \in DOMAIN connection_metadata
        /\ fan.pc = "sending"
        /\ fan.cur = ws

C15_NoRenewalOfRejectedToken ==
    (token.kind # "none" /\ decode_token(token, now) # "payload")
        => /\ ~(get_token_remaining_duration(token, now) > 0)
           /\ create_access_token(token.sub,
                  get_token_remaining_duration(token, now), now).kind # "jwt"

\* C16: a token issued for subject s with lifetime L decodes right after
\* its issuance, with subject s, and at every time from issuance + L on
\* decode_token raises ExpiredSignatureError.
C16_IssueDecodeRoundTrip ==
    [][token'.kind = "jwt" =>
          /\ token' # token =>
                /\ decode_token(token', now') = "payload"
                /\ token'.sub = resp'.request.sub
          /\ now' >= orig_exp' =>
                decode_token(token', now') = "ExpiredSignatureError"]_vars


\* What the peer of a refused handshake can tell: the exception message
\* the endpoint handles and the frame its client receives.
RefusedOutcome(ws) == [error |-> wire[ws].error, frame |-> wire[ws].delivered]

Refused(ws) == pc[ws] = "closed" /\ wire[ws].error # ""

\* C17: a caller of decode can tell an expired token from an invalid one:
\* two websockets refused at connect, one for an expired token and one for
\* a token of a bad signature, do not see the same outcome.
C17_ExpiredDistinguishableFromInvalid ==
    \A a, b \in WS :
        (/\ Refused(a) /\ Refused(b)
         /\ decode_token(wire[a].cred, now) = "ExpiredSignatureError"
         /\ decode_token(wire[b].cred, now) = "JWTError")
        => RefusedOutcome(a) # RefusedOutcome(b)

\* C18: a websocket whose token does not decode at connect receives exactly
\* one error frame, is closed and is in no index of the registry.
C18_RefusedConnectGetsOneErrorFrame ==
    \A ws \in WS :
        Refused(ws) =>
            /\ wire[ws].delivered = "error_auth"
            /\ ws \notin Visible(Manager)

\* The step of a handler that has just received `action` (a step that
\* changes neither its position nor its exchange is another handler's).
Received(ws, action) ==
    /\ pc[ws] = "open"
    /\ pc'[ws] \in {"open", "replying"}
    /\ wire'[ws].action = action
    /\ (pc'[ws] # pc[ws] \/ wire'[ws] # wire[ws])

\* The step of a handler whose send of `frame` has completed on a live
\* transport.
Sent(ws, frame) ==
    /\ pc[ws] = "replying"
    /\ wire[ws].frame = frame
    /\ pc'[ws] = "open"
    /\ stream[ws] = "alive"

OthersUntouched(ws) ==
    \A other \in WS \ {ws} : wire'[other] = wire[other] /\ pc'[other] = pc[other]

\* C19: get_stats and get_connected_users from a user who is not ADMIN start
\* no send and deliver no frame on any connection; from an ADMIN they send
\* one stats (connected_users) frame to that connection, and its delivery
\* leaves every other connection alone.
C19_StatsOnlyForAdmin ==
    [][\A ws \in WS :
          /\ \A action \in {"get_stats", "get_connected_users"} :
                Received(ws, action) =>
                    /\ OthersUntouched(ws)
                    /\ Manager' = Manager
                    /\ wire'[ws].delivered = "none"
                    /\ IF RoleOfUser(user[ws]) = ADMIN
                       THEN /\ pc'[ws] = "replying"
                            /\ wire'[ws].frame =
                                  (IF action = "get_stats" THEN "stats"
                                   ELSE "connected_users")
                       ELSE /\ pc'[ws] = "open"
                            /\ wire'[ws].frame = "none"
          /\ \A frame \in {"stats", "connected_users"} :
                Sent(ws, frame) =>
                    /\ RoleOfUser(user[ws]) = ADMIN
                    /\ wire'[ws].delivered = frame
                    /\ wire'[ws].frame = "none"
                    /\ OthersUntouched(ws)]_vars

\* An ADMIN has received its stats frame while the get_stats of a user who
\* is not ADMIN has been read and answered by nothing.
C19_Witness ==
    \E a, b \in WS :
        /\ RoleOfUser(user[a]) = ADMIN
        /\ wire[a].action = "get_stats" /\ wire[a].delivered = "stats"
        /\ user[b] # NoUser /\ RoleOfUser(user[b]) # ADMIN
        /\ wire[b].action = "get_stats" /\ pc[b] = "open"
        /\ wire[b].frame = "none" /\ wire[b].delivered = "none"

\* C20: an unknown action makes the handler send one error frame to the
\* sender and to nobody else; once it is sent the connection is open and
\* still registered.
C20_UnknownActionAnswered ==
    [][\A ws \in WS :
          /\ \A action \in ClientActions \ {"ping", "get_stats",
                                           "get_connected_users"} :
                Received(ws, action) =>
                    /\ pc'[ws] = "replying"
                    /\ wire'[ws].frame = "error_unknown_action"
                    /\ OthersUntouched(ws)
                    /\ Manager' = Manager
          /\ Sent(ws, "error_unknown_action") =>
                    /\ wire'[ws].delivered = "error_unknown_action"
                    /\ wire'[ws].frame = "none"
                    /\ OthersUntouched(ws)
                    /\ Manager' = Manager
                    /\ ws \in DOMAIN connection_metadata'
                    /\ ws \in Range(active_connections')]_vars

\* The error frame of an unknown action has been delivered and its
\* connection is open and registered.
C20_Witness ==
    \E ws \in WS :
        /\ wire[ws].action = "subscribe"
        /\ wire[ws].delivered = "error_unknown_action"
        /\ pc[ws] = "open"
        /\ ws \in DOMAIN connection_metadata

\* A step in which the handler of `ws` turns to another message or starts
\* a send.
TakesMessage(ws) ==
    \/ wire'[ws].action # wire[ws].action
    \/ wire'[ws].frame # "none" /\ wire[ws].frame = "none"

\* C21: a handler takes the next message of its connection only from the
\* top of its read loop, never while a reply is in flight; a ping starts
\* the send of a pong to the same connection in the step that reads it, and
\* the completion of that send on a live transport delivers the pong before
\* the handler is back at the top of the loop.
C21_PingAnsweredBeforeNextMessage ==
    [][\A ws \in WS :
          /\ TakesMessage(ws) => pc[ws] \in {"connecting", "open"}
          /\ Received(ws, "ping") =>
                /\ pc'[ws] = "replying"
                /\ wire'[ws].frame = "pong"
                /\ OthersUntouched(ws)
          /\ Sent(ws, "pong") =>
                /\ wire[ws].action = "ping"
                /\ wire'[ws].delivered = "pong"
                /\ OthersUntouched(ws)
          /\ (pc[ws] = "replying" /\ pc'[ws] = "replying") =>
                wire'[ws] = wire[ws]]_vars

\* A pong has been delivered for the ping last read, and the handler is
\* back at the top of its loop.
C21_Witness ==
    \E ws \in WS :
        /\ wire[ws].action = "ping"
        /\ wire[ws].delivered = "pong"
        /\ pc[ws] = "open"

\* ------------------------------------------------------- renewal headers
\* The credential of the request a response answers, as the authentication
\* dependency reads it.
RequestCredential == oauth2_scheme(resp.scheme, resp.request)

Answered == resp.status # 0

\* C22: a response carries X-New-Token if and only if it carries
\* X-Token-Refreshed, and it carries both exactly when should_refresh_token
\* was true for the credential of its request (no renewal having failed).
C22_RenewalHeadersGoTogether ==
    (Answered /\ resp.renew_ok) =>
        /\ resp.headers.x_new_token # NoToken
              <=> resp.headers.x_token_refreshed
        /\ resp.headers.x_token_refreshed
              <=> should_refresh_token(RequestCredential, now)

\* C23: a renewal that fails never fails the request: the response of a
\* request whose credential was due for a refresh is not an error of the
\* server, and it carries no renewal header.
C23_RenewalFailureSwallowed ==
    (/\ Answered
     /\ ~resp.renew_ok
     /\ should_refresh_token(RequestCredential, now))
        => /\ resp.status # 500
           /\ resp.headers = NoHeaders

\* C24: for a request whose Authorization header is absent or does not
\* start with "Bearer ", the response that leaves the middleware has the
\* headers the endpoint gave it: nothing is added.
C24_NoBearerPassesThrough ==
    (/\ Answered
     /\ resp.status # 500
     /\ (resp.request = NoToken \/ resp.scheme # "Bearer"))
        => resp.headers = resp.endpoint

\* A request without a Bearer header has been answered although its token
\* was, as a token, due for a refresh.
C24_Witness ==
    /\ Answered
    /\ resp.status # 500
    /\ resp.scheme # "Bearer"
    /\ should_refresh_token(resp.request, now)
    /\ resp.headers = resp.endpoint

\* ------------------------------------------------- two connections a user
\* Where a connection stands in the four views of the registry.
Memberships(m, ws) ==
    [active |-> InActive(m, ws),
     roles |-> RoleBuckets(m, ws),
     users |-> UserBuckets(m, ws),
     meta |-> IF ws \in DOMAIN m.meta THEN <<m.meta[ws]>> ELSE <<>>]

\* The connections in the bucket of user u.
BucketOfUser(m, u) == IF u \in DOMAIN m.by_user THEN m.by_user[u] ELSE {}

\* C25: disconnect(ws) changes the standing of no connection but ws, and a
\* send_to_user that ends has attempted every connection that was in the
\* user's bucket at the call and is still in it.
C25_OtherConnectionKeepsReceiving ==
    [][/\ \A ws \in WS : \A other \in WS \ {ws} :
             Memberships(disconnect(Manager, ws), other)
                = Memberships(Manager, other)
       /\ (/\ fan'.kind = "user"
           /\ fan.pc = "sending"
           /\ fan'.pc \in {"returned", "raised"}) =>
             (fan'.snapshot \cap BucketOfUser(Manager', fan'.target_user))
                \subseteq fan'.attempted]_vars

\* ---------------------------------------------------------- sliding session
\* C26: the token an active client holds is never expired.
C26_ActiveSessionNeverExpires ==
    token.kind = "jwt" => decode_token(token, now) = "payload"

\* ------------------------------------------------------------ unique users
\* The users that have at least one registered connection.
RegisteredUsers(m) == {m.meta[ws].user_id : ws \in DOMAIN m.meta}

\* C27: unique_users of get_connection_stats is the number of users with
\* at least one registered connection, and no user bucket is empty.
C27_UniqueUsersCountsRegisteredUsers ==
    /\ get_connection_stats(Manager).unique_users
          = Cardinality(RegisteredUsers(Manager))
    /\ \A u \in DOMAIN connections_by_user : connections_by_user[u] # {}

\* ------------------------------------------------------ stream and expiry
\* The handler of ws runs on a live stream and its token has expired.
OutlivesCredential(ws) ==
    /\ pc[ws] \notin {"connecting", "closed"}
    /\ stream[ws] = "alive"
    /\ decode_token(wire[ws].cred, now) = "ExpiredSignatureError"

\* C28: the expiry of its token neither closes nor unregisters a running
\* connection: the step in which the token expires changes nothing of it,
\* and on a live stream a handler whose token has expired ends or leaves
\* the registry only by the cancellation of its task, and goes on reading.
C28_ExpiryDoesNotCloseStream ==
    [][\A ws \in WS :
          /\ CredentialExpires(ws) =>
                /\ pc'[ws] = pc[ws]
                /\ Memberships(Manager', ws) = Memberships(Manager, ws)
          /\ OutlivesCredential(ws) =>
                /\ pc'[ws] = "closed" => HandlerCancelled(ws)
                /\ Memberships(Manager', ws) # Memberships(Manager, ws)
                      => HandlerCancelled(ws)
                /\ pc[ws] = "open" =>
                      ENABLED (HandlerReceive(ws) /\ pc'[ws] = "replying")]_vars

\* A handler whose token has expired is answering a ping, its connection
\* still registered.
C28_Witness ==
    \E ws \in WS :
        /\ OutlivesCredential(ws)
        /\ pc[ws] = "replying"
        /\ wire[ws].frame = "pong"
        /\ ws \in DOMAIN connection_metadata

\* ------------------------------------------------------- admins see it all
\* The step ends a call of a notify_* helper.
HelperEnds ==
    /\ fan'.helper # "none"
    /\ fan'.pc \in {"returned", "raised"}
    /\ fan' # fan

\* C29: when a notify_* helper ends, it has attempted a send to every
\* connection that was registered as ADMIN when it was called and still is.
C29_AdminsReceiveEveryNotification ==
    [][HelperEnds =>
          (fan'.admins \cap AdminsOf(Manager')) \subseteq fan'.attempted]_vars

\* ------------------------------------------------- read loop and registry
\* The handler of ws is inside its read loop.
InReadLoop(ws) == pc[ws] \in {"open", "replying", "except_send"}

\* C30: the connection of a handler that is in its read loop is in the
\* registry.
C30_ReadLoopImpliesRegistered ==
    \A ws \in WS : InReadLoop(ws) => ws \in Visible(Manager)

====
